---- MODULE Spec2Model ----
(***************************************************************************)
(* State-machine model of the NameMatcher browser client                   *)
(* (frontend/src/App.tsx and frontend/src/components/SwipeCard.tsx).       *)
(*                                                                         *)
(* The App component's React state is the program state.  Every HTTP      *)
(* request is a record in `inflight` that carries the values captured by   *)
(* the closure that issued it (the render's currentUser and names); its    *)
(* continuation runs when the response is delivered.  The backend is the   *)
(* environment: it serves each request at some moment between issue and    *)
(* delivery, and responses are delivered in any order.                     *)
(***************************************************************************)
EXTENDS Integers, Sequences, FiniteSets, TLC

VARIABLES
    users,        \* useState<User[]>        (App.tsx:22) ids of the loaded profiles
    currentUser,  \* useState<User | null>   (App.tsx:23) id, NoUser for null
    names,        \* useState<Name[]>        (App.tsx:24) the candidate queue, ids
    loading,      \* useState(false)         (App.tsx:25)
    view,         \* useState('swipe')       (App.tsx:27)
    dashboard,    \* useState(null)          (App.tsx:30) <<>> for null, <<snapshot>> otherwise
    inflight,     \* pending HTTP requests, in issue order, with their closures
    srvDecided,   \* backend: the (user, name) pairs with a recorded decision
    srvCatalog,   \* backend: the names 1..srvCatalog exist
    issued,       \* history: the number of requests issued so far
    decided,      \* history: (user, name) pairs whose POST /swipe resolved successfully
    last          \* history: the last step taken

vars == <<users, currentUser, names, loading, view, dashboard, inflight,
          srvDecided, srvCatalog, issued, decided, last>>

(***************************************************************************)
(* Bounds of the model.                                                    *)
(***************************************************************************)
MaxInflight == 2      \* the behaviours explored keep at most this many requests pending
MaxReq == 4           \* no step of the user issues a request beyond this many
MaxNames == 4         \* the backend never holds more names than this

(***************************************************************************)
(* Program constants.                                                      *)
(***************************************************************************)
RefillThreshold == 3
DragThreshold == 100

NoUser == 0
AllUsers == <<1, 2>>
UserIds == {1, 2}
InitNames == 3
GenBatch == 1
Directions == {"like", "dislike", "maybe"}
DragOffsets == {-101, -100, 0, 100, 101}
ErrShapes == {"detail", "message", "none"}

Min(a, b) == IF a < b THEN a ELSE b

RemoveAt(s, i) == SubSeq(s, 1, i - 1) \o SubSeq(s, i + 1, Len(s))

(***************************************************************************)
(* The backend (outside the repository): recommendations are the names of  *)
(* the catalogue that the user has no recorded decision for, in catalogue  *)
(* order.                                                                  *)
(***************************************************************************)
RECURSIVE Recommend(_, _, _)
Recommend(u, n, dec) ==
    IF n > srvCatalog THEN <<>>
    ELSE IF <<u, n>> \in dec THEN Recommend(u, n + 1, dec)
    ELSE <<n>> \o Recommend(u, n + 1, dec)

(***************************************************************************)
(* Pure pieces of the handlers.                                            *)
(***************************************************************************)
\* variant of Slice1: drops the last element instead of the first
Slice1_DropsLast(prev) == IF prev = <<>> THEN <<>> ELSE SubSeq(prev, 1, Len(prev) - 1)

\* prev.slice(1)
Slice1(prev) == IF prev = <<>> THEN <<>> ELSE Tail(prev)

\* the early return of handleSwipe: true when the handler goes on
SwipeGuard(cu, q) == ~(cu = NoUser \/ Len(q) = 0)

\* variant of CurrentName: takes the other end of the queue
CurrentName_Last(q) == q[Len(q)]

\* const currentName = names[0]
CurrentName(q) == q[1]

\* "Fetch more if low": the test made on the names of the closure
LowQueue(q) == Len(q) < RefillThreshold

\* the early return of fetchRecommendations: true when the fetch is issued
FetchGuard(cu) == cu # NoUser

\* variant of HandleDragEnd: the thresholds themselves already classify
HandleDragEnd_Inclusive(x) ==
    IF x >= DragThreshold THEN "like"
    ELSE IF x <= -DragThreshold THEN "dislike"
    ELSE ""

\* handleDragEnd: the onSwipe call made for a release at offset x ("" for none)
HandleDragEnd(x) ==
    IF x > DragThreshold THEN "like"
    ELSE IF x < -DragThreshold THEN "dislike"
    ELSE ""

\* variant of CurrentUserEffect: keeps a queue that is already there
CurrentUserEffect_Cached(cu) == cu # NoUser /\ names = <<>>

\* the effect on [currentUser]
CurrentUserEffect(cu) == cu # NoUser

\* the effect on [view]: runs when the dependency changed
ViewEffect(old, new) == old # new /\ new = "matches"

(***************************************************************************)
(* Requests.  `user` and `names` are the closure's currentUser and names;  *)
(* `name_id` and `dir` are the name_id and decision of a POST /swipe body. *)
(* `solo` records that no other request was pending from issue up to now;  *)
(* `lap` records that another recommendations fetch, pending at the same   *)
(* time, has already resolved successfully: "newer" on a request issued    *)
(* after that fetch, "older" on a request issued before it.                *)
(***************************************************************************)
Req(kind, cause, u, q, dir) ==
    [kind |-> kind, cause |-> cause, user |-> u, names |-> q, dir |-> dir,
     name_id |-> 0, status |-> "sent", list |-> <<>>, snap |-> 0, err |-> "",
     solo |-> FALSE, lap |-> ""]

Unsolo(s) == [i \in 1..Len(s) |-> [s[i] EXCEPT !.solo = FALSE]]

\* variant of Issue: the new request overtakes the pending ones
Issue_Front(s, r) == <<[r EXCEPT !.solo = (s = <<>>)]>> \o Unsolo(s)

\* the pending requests after issuing r, in the order of issue
Issue(s, r) == Append(Unsolo(s), [r EXCEPT !.solo = (s = <<>>)])

\* the positions of the pending requests
Slots == 1..MaxInflight

\* the last step: the handler, an argument, an outcome, and a note (the text
\* of the alert the step raised, or the lap of the fetch it resolved)
EvNote(op, arg, flag, note) == [op |-> op, arg |-> arg, flag |-> flag, note |-> note]

Ev(op, arg, flag) == EvNote(op, arg, flag, "")

Init ==
    /\ users = <<>>
    /\ currentUser = NoUser
    /\ names = <<>>
    /\ loading = FALSE
    /\ view = "swipe"
    /\ dashboard = <<>>
    /\ inflight = Issue(<<>>, Req("users", "mount", NoUser, <<>>, ""))
    /\ srvDecided = {}
    /\ srvCatalog = InitNames
    /\ issued = 1
    /\ decided = {}
    /\ last = Ev("mount", 0, FALSE)

(***************************************************************************)
(* The backend serves a pending request: it succeeds or fails.             *)
(***************************************************************************)
ServeOk(i) ==
    /\ i \in 1..Len(inflight)
    /\ inflight[i].status = "sent"
    /\ LET r == inflight[i] IN
       /\ srvDecided' = IF r.kind = "swipe"
                        THEN srvDecided \cup {<<r.user, r.name_id>>}
                        ELSE srvDecided
       /\ srvCatalog' = IF r.kind = "generate"
                        THEN Min(srvCatalog + GenBatch, MaxNames)
                        ELSE srvCatalog
       /\ inflight' = [inflight EXCEPT ![i] =
              [r EXCEPT !.status = "ok",
                        !.list = IF r.kind = "users" THEN AllUsers
                                 ELSE IF r.kind = "recs"
                                 THEN Recommend(r.user, 1, srvDecided)
                                 ELSE <<>>,
                        !.snap = IF r.kind = "dashboard" THEN Cardinality(srvDecided) ELSE 0]]
    /\ UNCHANGED <<users, currentUser, names, loading, view, dashboard,
                   issued, decided, last>>

ServeFail(i) ==
    /\ i \in 1..Len(inflight)
    /\ inflight[i].status = "sent"
    /\ \E e \in ErrShapes :
          /\ (inflight[i].kind # "generate" => e = "none")
          /\ inflight' = [inflight EXCEPT ![i] =
                 [inflight[i] EXCEPT !.status = "fail", !.err = e]]
    /\ UNCHANGED <<users, currentUser, names, loading, view, dashboard,
                   srvDecided, srvCatalog, issued, decided, last>>

(***************************************************************************)
(* fetchUsers, after the await.                                            *)
(***************************************************************************)
UsersDone(i) ==
    /\ i \in 1..Len(inflight)
    /\ inflight[i].kind = "users"
    /\ inflight[i].status # "sent"
    /\ users' = IF inflight[i].status = "ok" THEN inflight[i].list ELSE users
    /\ inflight' = RemoveAt(inflight, i)
    /\ last' = Ev("usersDone", 0, inflight[i].status = "ok")
    /\ UNCHANGED <<currentUser, names, loading, view, dashboard,
                   srvDecided, srvCatalog, issued, decided>>

(***************************************************************************)
(* fetchDashboard, after the await.                                        *)
(***************************************************************************)
\* variant of DashboardAfterFetch: a failed fetch drops the snapshot
DashboardAfterFetch_ClearsOnFailure(ok, prev, data) == IF ok THEN <<data>> ELSE <<>>

\* the snapshot after the await: setDashboard(res.data) in the try block only
DashboardAfterFetch(ok, prev, data) == IF ok THEN <<data>> ELSE prev

DashboardDone(i) ==
    /\ i \in 1..Len(inflight)
    /\ inflight[i].kind = "dashboard"
    /\ inflight[i].status # "sent"
    /\ dashboard' = DashboardAfterFetch(inflight[i].status = "ok", dashboard,
                                        inflight[i].snap)
    /\ inflight' = RemoveAt(inflight, i)
    /\ last' = Ev("dashboardDone", 0, inflight[i].status = "ok")
    /\ UNCHANGED <<users, currentUser, names, loading, view,
                   srvDecided, srvCatalog, issued, decided>>

(***************************************************************************)
(* fetchRecommendations, after the await: setNames(res.data) on success,   *)
(* setLoading(false) in both cases.                                        *)
(***************************************************************************)
\* variant of SetNamesOnFetch: a failed fetch empties the queue
SetNamesOnFetch_ClearsOnFailure(ok, prev, data) == IF ok THEN data ELSE <<>>

\* variant of SetNamesOnFetch: the response is appended to the queue
SetNamesOnFetch_Merges(ok, prev, data) == IF ok THEN prev \o data ELSE prev

\* the queue after the await: setNames(res.data) in the try block only
SetNamesOnFetch(ok, prev, data) == IF ok THEN data ELSE prev

\* variant of LoadingAfterFetch: setLoading(false) at the end of the try block
LoadingAfterFetch_TryOnly(ok, prev) == IF ok THEN FALSE ELSE prev

\* the loading flag after the await: setLoading(false) in the finally block
LoadingAfterFetch(ok, prev) == FALSE

\* the pending requests once the fetch at position i resolved
LapMarked(s, i) ==
    [j \in 1..Len(s) |->
        IF j # i /\ s[j].kind = "recs" /\ s[i].status = "ok"
        THEN [s[j] EXCEPT !.lap = IF j > i THEN "newer" ELSE "older"]
        ELSE s[j]]

RecsDone(i) ==
    /\ i \in 1..Len(inflight)
    /\ inflight[i].kind = "recs"
    /\ inflight[i].status # "sent"
    /\ names' = SetNamesOnFetch(inflight[i].status = "ok", names, inflight[i].list)
    /\ loading' = LoadingAfterFetch(inflight[i].status = "ok", loading)
    /\ inflight' = RemoveAt(LapMarked(inflight, i), i)
    /\ last' = EvNote("recsDone", inflight[i].user, inflight[i].status = "ok",
                      inflight[i].lap)
    /\ UNCHANGED <<users, currentUser, view, dashboard,
                   srvDecided, srvCatalog, issued, decided>>

(***************************************************************************)
(* Profile selection: setCurrentUser(user), then the effect on             *)
(* [currentUser] calls fetchRecommendations of the new render.             *)
(***************************************************************************)
\* the selection screen is rendered and has a button for profile u
ProfileOffered(u) ==
    /\ currentUser = NoUser
    /\ \E k \in 1..Len(users) : users[k] = u

\* the header with the view tabs, Generate and Switch is rendered
HeaderShown == currentUser # NoUser

SelectProfile(u) ==
    /\ ProfileOffered(u)
    /\ currentUser' = u
    /\ IF CurrentUserEffect(u) /\ FetchGuard(u)
       THEN /\ loading' = TRUE
            /\ inflight' = Issue(inflight, Req("recs", "select", u, <<>>, ""))
            /\ issued' = issued + 1
       ELSE UNCHANGED <<loading, inflight, issued>>
    /\ last' = Ev("select", u, FALSE)
    /\ UNCHANGED <<users, names, view, dashboard, srvDecided, srvCatalog, decided>>

(***************************************************************************)
(* The Switch button: setCurrentUser(null).                                *)
(***************************************************************************)
SwitchProfile ==
    /\ HeaderShown
    /\ currentUser' = NoUser
    /\ last' = Ev("switch", currentUser, FALSE)
    /\ UNCHANGED <<users, names, loading, view, dashboard, inflight,
                   srvDecided, srvCatalog, issued, decided>>

(***************************************************************************)
(* The swipe view renders the card stack when the queue is non-empty; the  *)
(* front card carries handleSwipe of the current render.                   *)
(***************************************************************************)
CardsShown ==
    /\ currentUser # NoUser
    /\ view = "swipe"
    /\ ~(loading /\ Len(names) = 0)
    /\ Len(names) > 0

(***************************************************************************)
(* The card stack: names.slice(0, 2).reverse().map((name, index) => ...),  *)
(* with 0-based index; the card rendered last is the topmost one.          *)
(***************************************************************************)
\* names.slice(0, 2)
Slice02(q) == SubSeq(q, 1, Min(Len(q), 2))

\* .reverse()
Reverse(q) == [k \in 1..Len(q) |-> q[Len(q) + 1 - k]]

\* variant of CardLive: the test of the earlier card stack, index === 1
CardLive_IndexOne(index, len) == index = 1

\* index === Math.min(names.length, 2) - 1: the card gets handleSwipe
CardLive(index, len) == index = Min(len, 2) - 1

\* the rendered cards in DOM order: the name shown and whether onSwipe is handleSwipe
Cards(q) ==
    [k \in 1..Len(Slice02(q)) |->
        [name |-> Reverse(Slice02(q))[k], live |-> CardLive(k - 1, Len(q))]]

(***************************************************************************)
(* handleSwipe up to the await: the early return, then the POST carrying   *)
(* the closure's currentUser.id and names[0].id.                           *)
(***************************************************************************)
HandleSwipe(direction) ==
    /\ SwipeGuard(currentUser, names)
    /\ inflight' = Issue(inflight,
           [Req("swipe", "swipe", currentUser, names, direction)
               EXCEPT !.name_id = CurrentName(names)])
    /\ issued' = issued + 1
    /\ UNCHANGED <<users, currentUser, names, loading, view, dashboard,
                   srvDecided, srvCatalog, decided>>

\* the onSwipe prop of card k called with a direction: handleSwipe or () => {}
OnSwipe(k, direction) ==
    IF Cards(names)[k].live
    THEN HandleSwipe(direction)
    ELSE UNCHANGED <<users, currentUser, names, loading, view, dashboard,
                     inflight, srvDecided, srvCatalog, issued, decided>>

\* one of the three buttons of card k
PressButton(k, direction) ==
    /\ CardsShown
    /\ k \in 1..Len(Cards(names))
    /\ last' = Ev("button", 0, Cards(names)[k].live)
    /\ OnSwipe(k, direction)

\* a drag of card k released at offset x
DragEnd(k, x) ==
    /\ CardsShown
    /\ k \in 1..Len(Cards(names))
    /\ last' = Ev("drag", 0, HandleDragEnd(x) # "" /\ Cards(names)[k].live)
    /\ IF HandleDragEnd(x) # ""
       THEN OnSwipe(k, HandleDragEnd(x))
       ELSE UNCHANGED <<users, currentUser, names, loading, view, dashboard,
                        inflight, srvDecided, srvCatalog, issued, decided>>

(***************************************************************************)
(* handleSwipe after the await.  On success: setNames(prev =>              *)
(* prev.slice(1)), then the refill test on the closure's names and         *)
(* fetchRecommendations of the closure.  On failure: console.error only.   *)
(***************************************************************************)
\* the queue after the POST resolved
PopOnResult(ok, prev) == IF ok THEN Slice1(prev) ELSE prev

\* variant of RefillOnResult: refills whatever the outcome of the POST
RefillOnResult_Always(ok, q) == LowQueue(q)

\* whether the continuation calls fetchRecommendations
RefillOnResult(ok, q) == ok /\ LowQueue(q)

SwipeDone(i) ==
    /\ i \in 1..Len(inflight)
    /\ inflight[i].kind = "swipe"
    /\ inflight[i].status # "sent"
    /\ LET r == inflight[i]
           ok == r.status = "ok"
           rest == RemoveAt(inflight, i)
       IN /\ names' = PopOnResult(ok, names)
          /\ IF RefillOnResult(ok, r.names) /\ FetchGuard(r.user)
             THEN /\ loading' = TRUE
                  /\ inflight' = Issue(rest, Req("recs", "refill", r.user, <<>>, ""))
                  /\ issued' = issued + 1
             ELSE /\ loading' = loading
                  /\ inflight' = rest
                  /\ issued' = issued
          /\ decided' = IF ok THEN decided \cup {<<r.user, r.name_id>>}
                        ELSE decided
          /\ last' = Ev(IF ok THEN "swipeOk" ELSE "swipeFail", r.name_id, r.solo)
    /\ UNCHANGED <<users, currentUser, view, dashboard, srvDecided, srvCatalog>>

(***************************************************************************)
(* The Generate button: setLoading(true) and POST /generate; after the     *)
(* await, fetchRecommendations of the closure on success, and              *)
(* setLoading(false) in the finally block, which runs after the            *)
(* synchronous part of fetchRecommendations.                               *)
(***************************************************************************)
Generate ==
    /\ HeaderShown
    /\ issued' = issued + 1
    /\ loading' = TRUE
    /\ inflight' = Issue(inflight, Req("generate", "generate", currentUser, <<>>, ""))
    /\ last' = Ev("generate", currentUser, FALSE)
    /\ UNCHANGED <<users, currentUser, names, view, dashboard,
                   srvDecided, srvCatalog, decided>>

\* the error object caught for each shape of failure: the detail of the
\* response body and the message of the error, "" when absent
ErrOf(shape) ==
    [detail |-> IF shape = "detail" THEN "Quota exceeded" ELSE "",
     message |-> IF shape = "none" THEN "" ELSE "Request failed"]

\* res.data.message of a successful POST /generate
GeneratedMessage == "Generated"

\* a || b on strings that may be absent
OrElse(a, b) == IF a # "" THEN a ELSE b

\* variant of GenerateErrorMsg: the fixed text of the earlier handler
GenerateErrorMsg_Fixed(e) == "check console/logs for API Key errors"

\* e.response?.data?.detail || e.message || "Unknown error"
GenerateErrorMsg(e) == OrElse(e.detail, OrElse(e.message, "Unknown error"))

\* variant of GenerateRefetch: the queue is fetched again whatever the outcome
GenerateRefetch_Always(ok) == TRUE

\* fetchRecommendations() is the last statement of the try block
GenerateRefetch(ok) == ok

GenerateDone(i) ==
    /\ i \in 1..Len(inflight)
    /\ inflight[i].kind = "generate"
    /\ inflight[i].status # "sent"
    /\ LET r == inflight[i]
           ok == r.status = "ok"
           rest == RemoveAt(inflight, i)
       IN /\ IF GenerateRefetch(ok) /\ FetchGuard(r.user)
             THEN /\ inflight' = Issue(rest, Req("recs", "regen", r.user, <<>>, ""))
                  /\ issued' = issued + 1
             ELSE /\ inflight' = rest
                  /\ issued' = issued
          /\ loading' = FALSE
          /\ last' = EvNote("generateDone", r.user, ok,
                            IF ok THEN GeneratedMessage
                            ELSE GenerateErrorMsg(ErrOf(r.err)))
    /\ UNCHANGED <<users, currentUser, names, view, dashboard,
                   srvDecided, srvCatalog, decided>>

(***************************************************************************)
(* The Swipe / Matches tabs: setView(v), then the effect on [view].        *)
(***************************************************************************)
SetView(v) ==
    /\ HeaderShown
    /\ view' = v
    /\ IF ViewEffect(view, v)
       THEN /\ inflight' = Issue(inflight, Req("dashboard", "view", NoUser, <<>>, ""))
            /\ issued' = issued + 1
       ELSE UNCHANGED <<inflight, issued>>
    /\ last' = Ev("view", 0, view # v)
    /\ UNCHANGED <<users, currentUser, names, loading, dashboard,
                   srvDecided, srvCatalog, decided>>

(***************************************************************************)
(* The handlers have no guard on the number of requests.  The behaviours   *)
(* explored are those in which a step of the user that issues a request   *)
(* leaves at most MaxInflight requests pending and at most MaxReq issued;  *)
(* the requests a continuation issues (refill, re-fetch after Generate)    *)
(* are never held back.                                                    *)
(***************************************************************************)
Bounded ==
    issued' # issued => Len(inflight') <= MaxInflight /\ issued' <= MaxReq

Next ==
    \/ \E i \in Slots : ServeOk(i)
    \/ \E i \in Slots : ServeFail(i)
    \/ \E i \in Slots : UsersDone(i)
    \/ \E i \in Slots : DashboardDone(i)
    \/ \E i \in Slots : RecsDone(i)
    \/ \E i \in Slots : SwipeDone(i)
    \/ \E i \in Slots : GenerateDone(i)
    \/ \E u \in UserIds : SelectProfile(u) /\ Bounded
    \/ SwitchProfile
    \/ \E v \in {"swipe", "matches"} : SetView(v) /\ Bounded
    \/ \E k \in 1..2, d \in Directions : PressButton(k, d) /\ Bounded
    \/ \E k \in 1..2, x \in DragOffsets : DragEnd(k, x) /\ Bounded
    \/ Generate /\ Bounded

Spec == Init /\ [][Next]_vars

(***************************************************************************)
(* Every request that was issued is eventually served, and every response  *)
(* is eventually delivered to its continuation.  The user is not obliged   *)
(* to act, and may act for ever.                                           *)
(***************************************************************************)
Served == \E i \in Slots : ServeOk(i) \/ ServeFail(i)

Delivered ==
    \E i \in Slots : \/ UsersDone(i)
                     \/ DashboardDone(i)
                     \/ RecsDone(i)
                     \/ SwipeDone(i)
                     \/ GenerateDone(i)

\* a step of the user: a click on a profile, a tab, Generate or Switch, a
\* press or a drag of a card
UserStep ==
    \/ \E u \in UserIds : SelectProfile(u)
    \/ SwitchProfile
    \/ \E v \in {"swipe", "matches"} : SetView(v)
    \/ \E k \in 1..2 : \/ \E d \in Directions : PressButton(k, d)
                       \/ \E x \in DragOffsets : DragEnd(k, x)
    \/ Generate

FairSpec == Spec /\ WF_vars(Served) /\ WF_vars(Delivered)

(***************************************************************************)
(* Steps and state predicates used by the properties.                      *)
(***************************************************************************)
\* the POST /swipe of slot i resolves successfully / with an error
SwipeOkStep(i) == SwipeDone(i) /\ inflight[i].status = "ok"
SwipeFailStep(i) == SwipeDone(i) /\ inflight[i].status = "fail"

\* this step issues exactly one request, of the given kind, for user u
IssuesOne(kind, u) ==
    /\ issued' = issued + 1
    /\ Len(inflight') >= 1
    /\ inflight'[Len(inflight')].kind = kind
    /\ inflight'[Len(inflight')].user = u
    /\ inflight'[Len(inflight')].status = "sent"

\* a recommendations request is pending
RecsPending == \E i \in 1..Len(inflight) : inflight[i].kind = "recs"

\* the aggregate view is the displayed view
MatchesShown == currentUser # NoUser /\ view = "matches"

(***************************************************************************)
(* C1: after a successful decision pops the head, a refill fetch is        *)
(* issued if and only if the queue length after the pop is < 3.            *)
(* The handler tests the length of the queue of its closure, i.e. the      *)
(* length before the pop, so this fails for a queue of 3.                  *)
(***************************************************************************)
C1_RefillIffShortAfterPop ==
    [][\A i \in Slots : SwipeOkStep(i) =>
          ((issued' = issued + 1) <=> (Len(names') < RefillThreshold))]_vars

(***************************************************************************)
(* C2: each pop removes exactly the candidate whose id was sent in the     *)
(* POST that succeeded.  Fails when the queue changed between the press    *)
(* and the response (a second press on the same head, or a fetch           *)
(* response).                                                              *)
(***************************************************************************)
C2_PopRemovesPostedName ==
    [][\A i \in Slots : SwipeOkStep(i) =>
          (names # <<>> => Head(names) = CurrentName(inflight[i].names))]_vars

(***************************************************************************)
(* C3: immediately after Switch, and when a profile is next selected, the  *)
(* queue is empty.  Switch only sets currentUser to null.                  *)
(***************************************************************************)
C3_SwitchEmptiesQueue ==
    /\ (last.op = "switch" => currentUser = NoUser /\ names = <<>>)
    /\ (last.op = "select" => names = <<>>)

(***************************************************************************)
(* C4: the queue held for the active user never contains a name for which  *)
(* a decision POST of that user has succeeded (the backend excludes every  *)
(* name it has a decision for when it serves a fetch).                     *)
(***************************************************************************)
C4_QueueHasNoDecidedName ==
    currentUser # NoUser =>
        \A k \in 1..Len(names) : <<currentUser, names[k]>> \notin decided

(***************************************************************************)
(* C5: when a decision is submitted on queue q with no other request in    *)
(* flight until the POST succeeds, the queue afterwards is q without its   *)
(* first element, in the same order.                                       *)
(***************************************************************************)
C5_SoloSwipePopsHead ==
    [][\A i \in Slots : (SwipeOkStep(i) /\ inflight[i].solo) =>
          /\ inflight[i].names # <<>>
          /\ names' = Tail(inflight[i].names)]_vars

C5_Witness ==
    /\ last.op = "swipeOk"
    /\ last.flag
    /\ Len(names) >= 2

(***************************************************************************)
(* C6: selecting a profile always enters the swipe view, and Switch        *)
(* returns to profile selection.  The view state survives Switch.          *)
(***************************************************************************)
C6_SelectEntersSwipeView ==
    /\ (last.op = "select" => currentUser # NoUser /\ view = "swipe")
    /\ (last.op = "switch" => currentUser = NoUser)

(***************************************************************************)
(* C7: while a recommendations fetch is in flight, loading is true.        *)
(***************************************************************************)
C7_LoadingWhileFetching == RecsPending => loading

(***************************************************************************)
(* C8: when a decision POST fails, the queue is unchanged, no refill       *)
(* fetch is issued and no further POST is issued.                          *)
(***************************************************************************)
C8_FailedSwipeChangesNothing ==
    [][\A i \in Slots : SwipeFailStep(i) =>
          /\ names' = names
          /\ issued' = issued
          /\ inflight' = RemoveAt(inflight, i)]_vars

C8_Witness ==
    /\ last.op = "swipeFail"
    /\ names # <<>>
    /\ LowQueue(names)

(***************************************************************************)
(* C9: selecting a profile issues exactly one recommendations fetch,       *)
(* addressed to that profile, also when the same profile is selected       *)
(* again after Switch.                                                     *)
(***************************************************************************)
C9_SelectIssuesOneFetch ==
    [][\A u \in UserIds : SelectProfile(u) =>
          /\ IssuesOne("recs", u)
          /\ Len(inflight') = Len(inflight) + 1]_vars

\* the profile just selected had been active before: it has decisions
C9_Witness ==
    /\ last.op = "select"
    /\ names # <<>>
    /\ \E n \in 1..MaxNames : <<currentUser, n>> \in decided

(***************************************************************************)
(* C10: every time the aggregate view becomes the displayed view, a        *)
(* dashboard fetch is issued.  Fails when the view is entered by selecting *)
(* a profile after a Switch made in the aggregate view.                    *)
(***************************************************************************)
C10_MatchesShownFetches ==
    [][(~MatchesShown /\ MatchesShown') => IssuesOne("dashboard", NoUser)]_vars

(***************************************************************************)
(* The state of the controller and the requests it has issued, without     *)
(* the backend and the history of the last step.                           *)
(***************************************************************************)
ctl == <<users, currentUser, names, loading, view, dashboard, inflight, issued>>

\* the position in Cards(q) of the card that shows the head of the queue
HeadCard(q) == Len(Cards(q))

(***************************************************************************)
(* C11: with a queue of length >= 1 in the swipe view, min(length, 2)      *)
(* cards are rendered, exactly one carries the live callback, and it is    *)
(* the card rendered last, which shows the head of the queue (also when    *)
(* the queue has one element); a press or drag on the other card issues    *)
(* no request and changes no controller state.                             *)
(***************************************************************************)
C11_StackShape ==
    CardsShown =>
        /\ Len(Cards(names)) = Min(Len(names), 2)
        /\ Cardinality({k \in 1..Len(Cards(names)) : Cards(names)[k].live}) = 1
        /\ Cards(names)[HeadCard(names)].live
        /\ Cards(names)[HeadCard(names)].name = names[1]

C11_OnlyFrontCardLive ==
    /\ []C11_StackShape
    /\ [][\A k \in 1..2 :
            (k # HeadCard(names) /\
             ((\E d \in Directions : PressButton(k, d)) \/
              (\E x \in DragOffsets : DragEnd(k, x))))
            => UNCHANGED <<ctl, srvDecided, srvCatalog, decided>>]_vars

\* a button of the back card was pressed
C11_Witness ==
    /\ last.op = "button"
    /\ ~last.flag
    /\ Len(names) >= 2

\* this step issues exactly one request, a POST /swipe with decision d
IssuesSwipe(d) ==
    /\ issued' = issued + 1
    /\ Len(inflight') = Len(inflight) + 1
    /\ inflight'[Len(inflight')].kind = "swipe"
    /\ inflight'[Len(inflight')].dir = d
    /\ inflight'[Len(inflight')].status = "sent"

(***************************************************************************)
(* C12: a drag of the live card released at offset x reports 'like' once   *)
(* if x > 100, 'dislike' once if x < -100, and nothing if -100 <= x <=     *)
(* 100; a drag never reports 'maybe'; a button press reports that          *)
(* button's literal once.                                                  *)
(***************************************************************************)
C12_DragClassification ==
    [][/\ \A x \in DragOffsets : DragEnd(HeadCard(names), x) =>
             IF x > 100 THEN IssuesSwipe("like")
             ELSE IF x < -100 THEN IssuesSwipe("dislike")
             ELSE UNCHANGED ctl
       /\ \A d \in Directions : PressButton(HeadCard(names), d) => IssuesSwipe(d)]_vars

\* the only card of the stack, which is live, was released in the dead zone
C12_Witness ==
    /\ last.op = "drag"
    /\ ~last.flag
    /\ CardsShown
    /\ Len(names) = 1

(***************************************************************************)
(* C13: a successful recommendations fetch replaces the queue by the       *)
(* response, keeping nothing of the previous queue; a failed one leaves    *)
(* the queue as it was.                                                    *)
(***************************************************************************)
C13_FetchReplacesOrKeeps ==
    [][\A i \in Slots : RecsDone(i) =>
          IF inflight[i].status = "ok"
          THEN names' = inflight[i].list
          ELSE names' = names]_vars

\* a fetch failed while a queue was shown: the stale queue is still there
C13_Witness ==
    /\ last.op = "recsDone"
    /\ ~last.flag
    /\ names # <<>>

\* the POST /generate of slot i resolves
GenerateOkStep(i) == GenerateDone(i) /\ inflight[i].status = "ok"
GenerateFailStep(i) == GenerateDone(i) /\ inflight[i].status = "fail"

(***************************************************************************)
(* C14: when POST /generate succeeds, exactly one recommendations fetch    *)
(* is issued; when it fails, one alert is raised with the server's detail  *)
(* when present, else the error message, else 'Unknown error', no fetch    *)
(* is issued, the queue is unchanged and loading ends false.               *)
(***************************************************************************)
C14_GenerateOutcome ==
    [][\A i \in Slots :
          /\ GenerateOkStep(i) =>
                /\ IssuesOne("recs", inflight[i].user)
                /\ Len(inflight') = Len(inflight)
          /\ GenerateFailStep(i) =>
                /\ issued' = issued
                /\ inflight' = RemoveAt(inflight, i)
                /\ names' = names
                /\ loading' = FALSE
                /\ last'.note =
                      IF inflight[i].err = "detail" THEN "Quota exceeded"
                      ELSE IF inflight[i].err = "message" THEN "Request failed"
                      ELSE "Unknown error"]_vars

\* a failed Generate raised the alert with the server's detail
C14_Witness ==
    /\ last.op = "generateDone"
    /\ ~last.flag
    /\ last.note = "Quota exceeded"
    /\ ~loading
    /\ names # <<>>

\* the request issued by this step
Newest == inflight'[Len(inflight')]

(***************************************************************************)
(* C15: each decision reported by the live card issues exactly one POST    *)
(* /swipe with user_id = the active user, name_id = the head of the queue  *)
(* at the moment of the action, decision = the reported direction.         *)
(***************************************************************************)
C15_SwipeBody ==
    [][/\ \A d \in Directions : PressButton(HeadCard(names), d) =>
             /\ IssuesSwipe(d)
             /\ Newest.user = currentUser
             /\ Newest.name_id = Head(names)
       /\ \A x \in DragOffsets :
             (DragEnd(HeadCard(names), x) /\ issued' # issued) =>
             /\ IssuesSwipe(IF x > 0 THEN "like" ELSE "dislike")
             /\ Newest.user = currentUser
             /\ Newest.name_id = Head(names)]_vars

\* user 1 pressed 'like' on a queue headed by name 1: the POST is pending
C15_Witness ==
    /\ last.op = "button"
    /\ last.flag
    /\ Len(names) >= 2
    /\ inflight[Len(inflight)].kind = "swipe"
    /\ inflight[Len(inflight)].user = 1
    /\ inflight[Len(inflight)].name_id = 1
    /\ inflight[Len(inflight)].dir = "like"

\* no request is in flight
Quiescent == inflight = <<>>

\* the controls of a screen with an active profile work
HeaderUsable ==
    HeaderShown =>
        /\ ENABLED Generate
        /\ ENABLED SwitchProfile
        /\ \A v \in {"swipe", "matches"} : ENABLED SetView(v)
        /\ (view = "swipe" /\ names # <<>>) =>
              \A d \in Directions : ENABLED PressButton(HeadCard(names), d)

(***************************************************************************)
(* C16 as stated: the controller always reaches a state with no request    *)
(* in flight and loading = false, and there every user action is enabled:  *)
(* on the selection screen each profile can be selected, with a profile    *)
(* active Generate, Switch, the view tabs and the swipe work.  After a     *)
(* failed users fetch the selection screen is empty for good.              *)
(***************************************************************************)
C16_EveryActionEnabled ==
    Quiescent =>
        /\ ~loading
        /\ HeaderUsable
        /\ currentUser = NoUser => \A u \in UserIds : ENABLED SelectProfile(u)

(***************************************************************************)
(* C16 amended: under fairness, once the user stops acting the controller  *)
(* reaches a state with no request in flight and stays there (while the    *)
(* user keeps acting a request may be pending at every moment, though      *)
(* each one is answered).  In every state with no request in flight,       *)
(* loading = false, the controls of an active profile work, and every      *)
(* profile of the loaded list can be selected (the list is empty after a   *)
(* failed users fetch).                                                    *)
(***************************************************************************)
C16_QuiescentUsable ==
    Quiescent =>
        /\ ~loading
        /\ HeaderUsable
        /\ currentUser = NoUser =>
              \A k \in 1..Len(users) : ENABLED SelectProfile(users[k])

C16_NoLock ==
    /\ <>[][~UserStep]_vars => <>[](Quiescent /\ ~loading)
    /\ []C16_QuiescentUsable

\* a recommendations fetch failed, nothing is pending and a profile is active
C16_Witness ==
    /\ last.op = "recsDone"
    /\ ~last.flag
    /\ Quiescent
    /\ currentUser # NoUser

\* the fetch at position i overlapped a fetch that has resolved successfully
Overlapped(i) == inflight[i].kind = "recs" /\ inflight[i].lap # ""

(***************************************************************************)
(* C17: when two recommendations fetches overlap and both resolve          *)
(* successfully, the queue after the second resolution is the response     *)
(* that resolved last, whether that request was issued before or after     *)
(* the other one.                                                          *)
(***************************************************************************)
C17_LastResponseWins ==
    [][\A i \in Slots :
          (RecsDone(i) /\ Overlapped(i) /\ inflight[i].status = "ok")
          => names' = inflight[i].list]_vars

\* the fetch that was issued first resolved last, and its response is the queue
C17_Witness ==
    /\ last.op = "recsDone"
    /\ last.flag
    /\ last.note = "older"
    /\ names # <<>>

\* the response to the request at position i is delivered to its continuation
DoneStep(i) ==
    \/ UsersDone(i)
    \/ DashboardDone(i)
    \/ RecsDone(i)
    \/ SwipeDone(i)
    \/ GenerateDone(i)

\* a failed response is delivered
FailStep(i) == DoneStep(i) /\ inflight[i].status = "fail"

(***************************************************************************)
(* C18: no automatic retry.  The delivery of a failed response of any      *)
(* kind issues no request; the user list changes only when the users       *)
(* fetch succeeds, so it stays empty after a failure; and no users fetch   *)
(* is issued after the one on mount.                                       *)
(***************************************************************************)
C18_NoRetry ==
    [][/\ \A i \in Slots : FailStep(i) =>
             /\ issued' = issued
             /\ inflight' = RemoveAt(inflight, i)
       /\ users' # users =>
             \E i \in Slots : UsersDone(i) /\ inflight[i].status = "ok"
       /\ issued' # issued => Newest.kind # "users"]_vars

\* POST /generate failed and nothing is in flight afterwards
C18_Witness ==
    /\ last.op = "generateDone"
    /\ ~last.flag
    /\ inflight = <<>>
    /\ currentUser # NoUser

\* what was issued, and why, for each pending request in the order of issue
Order(s) == [k \in 1..Len(s) |-> <<s[k].kind, s[k].cause, s[k].user>>]

\* this step issues one request of the given kind and cause, after every
\* request that is pending
AppendsRequest(kind, cause) ==
    /\ issued' = issued + 1
    /\ Len(inflight') = Len(inflight) + 1
    /\ Newest.kind = kind
    /\ Newest.cause = cause
    /\ SubSeq(Order(inflight'), 1, Len(inflight)) = Order(inflight)

(***************************************************************************)
(* C19 as stated, for Generate followed by another action: when the        *)
(* recommendations fetch caused by Generate is issued, no fetch or         *)
(* decision POST caused by a later profile selection or decision has been  *)
(* issued yet.  The fetch of Generate is issued only when POST /generate   *)
(* has resolved, and the user can act in between.                          *)
(***************************************************************************)
C19_IssuedInActionOrder ==
    [][\A i \in Slots : (GenerateDone(i) /\ issued' # issued) =>
          \A j \in (i + 1)..Len(inflight) :
              inflight[j].cause \notin {"select", "swipe"}]_vars

(***************************************************************************)
(* C19 amended: the request a user action issues itself (the fetch of a    *)
(* profile selection, the decision POST, POST /generate) is issued in the  *)
(* step of the action, after every request issued before, so these         *)
(* requests are issued in the order of the actions.  The fetch that        *)
(* follows Generate is issued when POST /generate has succeeded, after     *)
(* the requests of the actions performed in between.                       *)
(***************************************************************************)
C19_DirectRequestsInOrder ==
    [][/\ \A u \in UserIds : SelectProfile(u) => AppendsRequest("recs", "select")
       /\ \A d \in Directions :
             PressButton(HeadCard(names), d) => AppendsRequest("swipe", "swipe")
       /\ \A x \in DragOffsets :
             (DragEnd(HeadCard(names), x) /\ HandleDragEnd(x) # "")
             => AppendsRequest("swipe", "swipe")
       /\ Generate => AppendsRequest("generate", "generate")
       /\ \A i \in Slots : (GenerateDone(i) /\ issued' # issued) =>
             /\ Newest.cause = "regen"
             /\ Order(inflight') = Order(RemoveAt(inflight, i)) \o <<Order(inflight')[Len(inflight')]>>]_vars

\* the fetch of Generate was issued after the decision POST of a later press
C19_Witness ==
    /\ last.op = "generateDone"
    /\ last.flag
    /\ Len(inflight) = 2
    /\ inflight[1].cause = "swipe"
    /\ inflight[2].cause = "regen"

\* card k is pressed or dragged
WidgetStep(k) ==
    \/ \E d \in Directions : PressButton(k, d)
    \/ \E x \in DragOffsets : DragEnd(k, x)

(***************************************************************************)
(* C20: the dashboard snapshot changes only in the step that delivers a    *)
(* successful dashboard fetch; every other step, a failed dashboard fetch  *)
(* included, leaves it as it was.  A press or a drag of a card changes     *)
(* the controller's state only by what handleSwipe does.                   *)
(***************************************************************************)
C20_SnapshotFrame ==
    [][/\ dashboard' # dashboard =>
             \E i \in Slots : DashboardDone(i) /\ inflight[i].status = "ok"
       /\ \A k \in 1..2 : WidgetStep(k) =>
             \/ UNCHANGED ctl
             \/ \E d \in Directions : HandleSwipe(d)]_vars

\* a dashboard fetch failed while a snapshot of an earlier fetch is held
C20_Witness ==
    /\ last.op = "dashboardDone"
    /\ ~last.flag
    /\ dashboard # <<>>

(***************************************************************************)
(* C21: in every state in which a card is live, the queue came from a      *)
(* response to a fetch for the active user.  Stated for the states a       *)
(* successful fetch response has just produced: the fetch was issued for   *)
(* the profile that is active now.  A response that arrives after the      *)
(* profile changed is applied all the same.                                *)
(***************************************************************************)
C21_QueueOfActiveUser ==
    (last.op = "recsDone" /\ last.flag /\ CardsShown) => last.arg = currentUser

\* the pending requests at positions i and j are decision POSTs with the same
\* user_id and name_id
SamePair(i, j) ==
    /\ i # j
    /\ inflight[i].kind = "swipe"
    /\ inflight[j].kind = "swipe"
    /\ inflight[i].user = inflight[j].user
    /\ inflight[i].name_id = inflight[j].name_id

(***************************************************************************)
(* C22: at most one decision POST is issued for a (user_id, name_id) pair  *)
(* whose POST succeeds: when a POST succeeds no other POST for its pair    *)
(* is pending, and no POST is issued for a pair whose POST has already     *)
(* succeeded.  Nothing disables the live card while a POST is pending, so  *)
(* a second press posts the same pair again.                               *)
(***************************************************************************)
C22_OnePostPerPair ==
    [][/\ \A i \in Slots : SwipeOkStep(i) =>
             \A j \in 1..Len(inflight) : ~SamePair(i, j)
       /\ (issued' # issued /\ Newest.kind = "swipe") =>
             <<Newest.user, Newest.name_id>> \notin decided]_vars
====
